---- MODULE Spec2Model ----
\* Model of the Nuke Text Editor panel (TextEditor.py): the document state
\* (is_modified, current_file_path, editor text), the recent-files list and
\* the file handlers of TextEditorWidget, plus the show_texteditor() entry
\* point.  Every handler runs to completion on the GUI thread, so one action
\* is one whole handler; the user's answers to dialogs and the outcome of
\* the file I/O are the action's inputs.
EXTENDS Integers, Sequences, FiniteSets, TLC

\* ---------------------------------------------------------------- bounds
NumStems == 5      \* file stems on offer in the recent-files sessions
DocStems == 1      \* file stems on offer in the document sessions
MaxTextLen == 1    \* longest editor / file content

\* ------------------------------------------------------- program constants
MAX_RECENT_FILES == 5

\* ------------------------------------------------------------------ paths
\* A path is a sequence of characters.  <<>> is both Python's None for
\* current_file_path and the empty string a cancelled file dialog returns:
\* the code tests both with plain truthiness (`if path:`).
None == <<>>

StemChars == <<"a", "b", "c", "d", "e", "f", "g", "h">>

Stems(n) == {StemChars[i] : i \in 1..n}

Txt == <<".", "t", "x", "t">>

TXT == <<".", "T", "X", "T">>

Range(s) == {s[i] : i \in DOMAIN s}

Min(a, b) == IF a <= b THEN a ELSE b

\* str.lower() on the characters that occur in the modelled paths
LowerChar(c) == IF c = "T" THEN "t" ELSE IF c = "X" THEN "x" ELSE c

Lower(s) == [i \in 1..Len(s) |-> LowerChar(s[i])]

EndsWith(s, suf) ==
    /\ Len(s) >= Len(suf)
    /\ SubSeq(s, Len(s) - Len(suf) + 1, Len(s)) = suf

\* save_as: `if not path.lower().endswith(".txt"): path += ".txt"`
EnsureTxt(path) == IF EndsWith(Lower(path), Txt) THEN path ELSE path \o Txt

\* files that exist and can be picked in the Open dialog, double-clicked in
\* the sidebar browser or named by a Recent Files entry
Files(S) == {<<s>> \o Txt : s \in S} \cup {<<StemChars[1]>> \o TXT}

\* what the user may type in the Save As dialog (without or with suffix)
SaveNames(S) == {<<s>> : s \in S} \cup Files(S)

\* plain-text contents of the editor and of files
Contents == {[i \in 1..n |-> "x"] : n \in 0..MaxTextLen}

\* the inputs of a session: the files and contents the environment offers,
\* and whether `last` is kept (the recent-files sessions do not keep it)
Doc == [files |-> Files(Stems(DocStems)),
        saves |-> SaveNames(Stems(DocStems)),
        contents |-> Contents,
        observe |-> TRUE]

Rec == [files |-> Files(Stems(NumStems)),
        saves |-> SaveNames(Stems(NumStems)),
        contents |-> {<<>>},
        observe |-> FALSE]

\* the buttons of the Save Changes? prompt: discard, cancel, save
Replies == {"No", "Cancel", "Yes"}

\* ------------------------------------------------------------------ state
VARIABLES
    text_editor_instance,  \* module global: "None" or "widget"
    visible,               \* isVisible() of the instance's window
    text,                  \* text_edit.toPlainText()
    is_modified,
    current_file_path,
    recent_files,
    saved_text,            \* content last read from / written to the bound
                           \* file (empty while untitled)
    last,                  \* what the last handler did (observation only)
    recorded,              \* registry sessions: the paths passed to
                           \* add_recent_file (observation only)
    browser                \* browser sessions: the sidebar FileBrowser and
                           \* the directory tree it shows

vars == <<text_editor_instance, visible, text, is_modified,
          current_file_path, recent_files, saved_text, last,
          recorded, browser>>

\* the widget's fields as one record, threaded through the handlers
Widget == [txt |-> text, mod |-> is_modified, cur |-> current_file_path,
           rf |-> recent_files, saved |-> saved_text,
           io |-> "none", warning |-> FALSE, raised |-> FALSE,
           replaced |-> FALSE, added |-> None, arg |-> None,
           dialog |-> FALSE]

\* faulty variant: the widget starts out modified
NewWidget_dirty == [txt |-> <<>>, mod |-> TRUE, cur |-> None,
                    rf |-> <<>>, saved |-> <<>>,
                    io |-> "none", warning |-> FALSE, raised |-> FALSE,
                    replaced |-> FALSE, added |-> None, arg |-> None,
                    dialog |-> FALSE]

\* TextEditorWidget.__init__: the three tracked fields and an empty editor
NewWidget == [txt |-> <<>>, mod |-> FALSE, cur |-> None,
              rf |-> <<>>, saved |-> <<>>,
              io |-> "none", warning |-> FALSE, raised |-> FALSE,
              replaced |-> FALSE, added |-> None, arg |-> None,
              dialog |-> FALSE]

\* the spec's recordUse: remove path if present, insert it at index 0,
\* truncate to the capacity
RecordUse(entries, path) ==
    LET rest == SelectSeq(entries, LAMBDA e : e # path)
        ins == <<path>> \o rest
    IN  SubSeq(ins, 1, Min(Len(ins), MAX_RECENT_FILES))

\* `last`: the handler that ran last, what it showed the user (prompted and
\* the reply, dialog: the Save As dialog), what it did (io: the outcome of
\* its read or write, replaced: it replaced the content, added: the path it
\* passed to add_recent_file, arg: the path of a completed read or write as
\* the user gave it); mru is the reference list of the paths this widget
\* recorded
Observe(op, prompted, reply, created, w) ==
    [op |-> op, prompted |-> prompted, reply |-> reply, created |-> created,
     io |-> w.io, warning |-> w.warning, raised |-> w.raised,
     replaced |-> w.replaced, added |-> w.added, arg |-> w.arg,
     dialog |-> w.dialog,
     mru |-> IF created THEN <<>>
             ELSE IF w.added # None THEN RecordUse(last.mru, w.added)
             ELSE last.mru]

Record(b, obs) == last' = IF b.observe THEN obs ELSE last

Store(w) ==
    /\ text' = w.txt
    /\ is_modified' = w.mod
    /\ current_file_path' = w.cur
    /\ recent_files' = w.rf
    /\ saved_text' = w.saved
    /\ UNCHANGED <<recorded, browser>>

\* ------------------------------------------------------- recent-files list
\* add_recent_file: insert at the front unless already listed, then slice
\* faulty variant: the slice to MAX_RECENT_FILES is left out
add_recent_file_noTruncate(rf, path) ==
    IF path \notin Range(rf) THEN <<path>> \o rf ELSE rf

\* faulty variant: the slice keeps the tail of the list, not its head
add_recent_file_keepsOldest(rf, path) ==
    LET ins == IF path \notin Range(rf) THEN <<path>> \o rf ELSE rf
    IN  SubSeq(ins, Len(ins) - Min(Len(ins), MAX_RECENT_FILES) + 1, Len(ins))

\* faulty variant: a path already listed is swapped with the first entry
add_recent_file_swapsToFront(rf, path) ==
    LET ins == IF path \notin Range(rf) THEN <<path>> \o rf
               ELSE [i \in 1..Len(rf) |->
                       IF i = 1 THEN path
                       ELSE IF rf[i] = path THEN rf[1] ELSE rf[i]]
    IN  SubSeq(ins, 1, Min(Len(ins), MAX_RECENT_FILES))

\* faulty variant: the path is appended instead of inserted at index 0
add_recent_file_appends(rf, path) ==
    LET ins == IF path \notin Range(rf) THEN rf \o <<path>> ELSE rf
    IN  SubSeq(ins, 1, Min(Len(ins), MAX_RECENT_FILES))

add_recent_file(rf, path) ==
    LET ins == IF path \notin Range(rf) THEN <<path>> \o rf ELSE rf
    IN  SubSeq(ins, 1, Min(Len(ins), MAX_RECENT_FILES))

\* --------------------------------------------------------------- handlers
\* faulty variant: the slot leaves is_modified alone
on_text_changed_ignored(w) == w

\* on_text_changed, reached through text_edit.textChanged
on_text_changed(w) == [w EXCEPT !.mod = TRUE]

\* text_edit.setPlainText(content) / text_edit.clear(): replaces the content
\* and emits textChanged
setPlainText(w, content) ==
    on_text_changed([w EXCEPT !.txt = content, !.replaced = TRUE])

\* the `except Exception` branches: QMessageBox.warning, nothing else
\* faulty variant: the except branch also marks the document clean
Warn_marksClean(w) == [w EXCEPT !.io = "fail", !.warning = TRUE, !.mod = FALSE]

Warn(w) == [w EXCEPT !.io = "fail", !.warning = TRUE]

\* faulty variant: is_modified is not reset after setPlainText
load_file_from_browser_staysDirty(w, path, ok, content) ==
    IF ok
    THEN LET w1 == setPlainText(w, content)
         IN  [w1 EXCEPT !.cur = path,
                        !.rf = add_recent_file(w1.rf, path),
                        !.added = path,
                        !.saved = content,
                        !.io = "ok", !.arg = path]
    ELSE Warn(w)

load_file_from_browser(w, path, ok, content) ==
    IF ok
    THEN LET w1 == setPlainText(w, content)
         IN  [w1 EXCEPT !.cur = path,
                        !.rf = add_recent_file(w1.rf, path),
                        !.added = path,
                        !.mod = FALSE,
                        !.saved = content,
                        !.io = "ok", !.arg = path]
    ELSE Warn(w)

\* faulty variant: a cancelled Save As dialog marks the document clean
save_as_cancelMarksClean(w0, choice, ok) ==
    LET w == [w0 EXCEPT !.dialog = TRUE]
    IN  IF choice # None
        THEN LET path == EnsureTxt(choice)
             IN  IF ok
                 THEN [w EXCEPT !.cur = path,
                                !.rf = add_recent_file(w.rf, path),
                                !.added = path,
                                !.mod = FALSE,
                                !.saved = w.txt,
                                !.io = "ok", !.arg = choice]
                 ELSE Warn(w)
        ELSE [w EXCEPT !.io = "cancelled", !.mod = FALSE]

save_as(w0, choice, ok) ==
    LET w == [w0 EXCEPT !.dialog = TRUE]
    IN  IF choice # None
        THEN LET path == EnsureTxt(choice)
             IN  IF ok
                 THEN [w EXCEPT !.cur = path,
                                !.rf = add_recent_file(w.rf, path),
                                !.added = path,
                                !.mod = FALSE,
                                !.saved = w.txt,
                                !.io = "ok", !.arg = choice]
                 ELSE Warn(w)
        ELSE [w EXCEPT !.io = "cancelled"]

save(w, choice, ok) ==
    IF w.cur # None
    THEN IF ok
         THEN [w EXCEPT !.rf = add_recent_file(w.rf, w.cur),
                        !.added = w.cur,
                        !.mod = FALSE,
                        !.saved = w.txt,
                        !.io = "ok", !.arg = w.cur]
         ELSE Warn(w)
    ELSE save_as(w, choice, ok)

\* open() has no try/except: a failing open()/read() raises out of the slot
\* before any field is assigned
open(w, filename, ok, content) ==
    IF filename # None
    THEN IF ok
         THEN LET w1 == setPlainText(w, content)
              IN  [w1 EXCEPT !.cur = filename,
                             !.rf = add_recent_file(w1.rf, filename),
                             !.added = filename,
                             !.mod = FALSE,
                             !.saved = content,
                             !.io = "ok", !.arg = filename]
         ELSE [w EXCEPT !.io = "fail", !.raised = TRUE]
    ELSE [w EXCEPT !.io = "cancelled"]

\* faulty variant: the editor is not cleared
new_file_keepsText(w, reply, choice, ok) ==
    IF w.mod /\ reply = "Cancel"
    THEN w
    ELSE LET w1 == IF w.mod /\ reply = "Yes" THEN save(w, choice, ok) ELSE w
         IN  [w1 EXCEPT !.cur = None, !.mod = FALSE, !.saved = <<>>,
                        !.replaced = TRUE]

\* faulty variant: Cancel is treated like No
new_file_cancelClears(w, reply, choice, ok) ==
    LET w1 == IF w.mod /\ reply = "Yes" THEN save(w, choice, ok) ELSE w
        w2 == setPlainText(w1, <<>>)
    IN  [w2 EXCEPT !.cur = None, !.mod = FALSE, !.saved = <<>>]

\* new_file: reply is only asked for (and only used) when is_modified
new_file(w, reply, choice, ok) ==
    IF w.mod /\ reply = "Cancel"
    THEN w
    ELSE LET w1 == IF w.mod /\ reply = "Yes" THEN save(w, choice, ok) ELSE w
             w2 == setPlainText(w1, <<>>)
         IN  [w2 EXCEPT !.cur = None, !.mod = FALSE, !.saved = <<>>]

\* faulty variant: the answer No marks the document clean
closeEvent_discardMarksClean(w, reply, choice, ok) ==
    IF w.mod /\ reply = "Yes" THEN save(w, choice, ok)
    ELSE IF reply = "No" THEN [w EXCEPT !.mod = FALSE]
    ELSE w

\* closeEvent: the fields change only through save(); the result of
\* event.accept()/ignore() is closeAccepted
closeEvent(w, reply, choice, ok) ==
    IF w.mod /\ reply = "Yes" THEN save(w, choice, ok) ELSE w

closeAccepted(w, reply) == ~(w.mod /\ reply = "Cancel")

\* ---------------------------------------------------------------- actions
Shown == text_editor_instance = "widget" /\ visible

\* inputs save() consumes: the Save As dialog's answer (asked only while
\* untitled) and whether the write succeeds (only if a write is attempted)
SaveInputs(w, b) ==
    IF w.cur # None
    THEN {<<None, ok>> : ok \in BOOLEAN}
    ELSE {<<c, ok>> : c \in b.saves, ok \in BOOLEAN} \cup {<<None, TRUE>>}

\* inputs of a handler that prompts Save/Discard/Cancel while is_modified
PromptInputs(w, b) ==
    IF w.mod
    THEN UNION {IF r = "Yes"
                THEN {<<r, i[1], i[2]>> : i \in SaveInputs(w, b)}
                ELSE {<<r, None, TRUE>>} : r \in Replies}
    ELSE {<<"none", None, TRUE>>}

\* inputs of a read: it fails, or it yields some content
ReadInputs(b) == {<<FALSE, <<>> >>} \cup {<<TRUE, c>> : c \in b.contents}

\* nothing recorded yet.  path is the path recorded last; repeated tells
\* whether some path was recorded twice; order lists the paths recorded, the
\* last one first, for as long as they are pairwise distinct (it is dropped
\* once a path repeats)
NoneRecorded == [order |-> <<>>, repeated |-> FALSE, path |-> None]

\* the sidebar browser before anything was asked, over an empty tree.
\* items are the files and folders below the home folder ([path, dir], a
\* path being the sequence of names from the home folder down); index is
\* tree.currentIndex() as a path, <<>> when it is not valid; the other
\* fields tell what the last handler did
IdleBrowser == [items |-> {}, index |-> <<>>, op |-> "none",
                asked |-> FALSE, confirm |-> "none", warning |-> FALSE,
                removed |-> {}]

\* the fields as __init__ leaves them
Store0 ==
    /\ text = NewWidget.txt
    /\ is_modified = NewWidget.mod
    /\ current_file_path = NewWidget.cur
    /\ recent_files = NewWidget.rf
    /\ saved_text = NewWidget.saved

Init ==
    /\ recorded = NoneRecorded
    /\ browser = IdleBrowser
    /\ text_editor_instance = "None"
    /\ visible = FALSE
    /\ text = <<>>
    /\ is_modified = FALSE
    /\ current_file_path = None
    /\ recent_files = <<>>
    /\ saved_text = <<>>
    /\ last = [op |-> "import", prompted |-> FALSE, reply |-> "none",
               created |-> FALSE, io |-> "none", warning |-> FALSE,
               raised |-> FALSE, replaced |-> FALSE, added |-> None,
               arg |-> None, dialog |-> FALSE, mru |-> <<>>]

\* faulty variant: a new widget is built on every call
ShowTextEditor_alwaysNew(b) ==
    /\ text_editor_instance' = "widget"
    /\ visible' = TRUE
    /\ Store(NewWidget)
    /\ Record(b, Observe("show_texteditor", FALSE, "none", TRUE, NewWidget))

\* show_texteditor(): raise the visible instance, else build a new widget
ShowTextEditor(b) ==
    IF Shown
    THEN /\ Record(b, Observe("show_texteditor", FALSE, "none", FALSE, NewWidget))
         /\ UNCHANGED <<text_editor_instance, visible, text, is_modified,
                        current_file_path, recent_files, saved_text,
                        recorded, browser>>
    ELSE /\ text_editor_instance' = "widget"
         /\ visible' = TRUE
         /\ Store(NewWidget)
         /\ Record(b, Observe("show_texteditor", FALSE, "none", TRUE, NewWidget))

\* the user types, deletes, replaces or reformats: textChanged fires
Edit(b) ==
    /\ Shown
    /\ \E content \in b.contents :
         LET w == on_text_changed([Widget EXCEPT !.txt = content])
         IN  /\ Store(w)
             /\ Record(b, Observe("edit", FALSE, "none", FALSE, w))
    /\ UNCHANGED <<text_editor_instance, visible>>

NewFile(b) ==
    /\ Shown
    /\ \E i \in PromptInputs(Widget, b) :
         LET w == new_file(Widget, i[1], i[2], i[3])
         IN  /\ Store(w)
             /\ Record(b, Observe("new_file", is_modified, i[1], FALSE, w))
    /\ UNCHANGED <<text_editor_instance, visible>>

\* file_selected from the sidebar browser, or a Recent Files menu entry
LoadFileFromBrowser(b) ==
    /\ Shown
    /\ \E path \in b.files \cup Range(recent_files), r \in ReadInputs(b) :
         LET w == load_file_from_browser(Widget, path, r[1], r[2])
         IN  /\ Store(w)
             /\ Record(b, Observe("load_file_from_browser", FALSE, "none",
                                FALSE, w))
    /\ UNCHANGED <<text_editor_instance, visible>>

Save(b) ==
    /\ Shown
    /\ \E i \in SaveInputs(Widget, b) :
         LET w == save(Widget, i[1], i[2])
         IN  /\ Store(w)
             /\ Record(b, Observe("save", FALSE, "none", FALSE, w))
    /\ UNCHANGED <<text_editor_instance, visible>>

SaveAs(b) ==
    /\ Shown
    /\ \E i \in SaveInputs([Widget EXCEPT !.cur = None], b) :
         LET w == save_as(Widget, i[1], i[2])
         IN  /\ Store(w)
             /\ Record(b, Observe("save_as", FALSE, "none", FALSE, w))
    /\ UNCHANGED <<text_editor_instance, visible>>

Open(b) ==
    /\ Shown
    /\ \E filename \in b.files \cup {None} :
       \E r \in IF filename = None THEN {<<TRUE, <<>> >>} ELSE ReadInputs(b) :
         LET w == open(Widget, filename, r[1], r[2])
         IN  /\ Store(w)
             /\ Record(b, Observe("open", FALSE, "none", FALSE, w))
    /\ UNCHANGED <<text_editor_instance, visible>>

CloseEvent(b) ==
    /\ Shown
    /\ \E i \in PromptInputs(Widget, b) :
         LET w == closeEvent(Widget, i[1], i[2], i[3])
         IN  /\ Store(w)
             /\ visible' = ~closeAccepted(Widget, i[1])
             /\ Record(b, Observe("closeEvent", is_modified, i[1], FALSE, w))
    /\ UNCHANGED text_editor_instance

\* document sessions: few files, every content
Next ==
    \/ ShowTextEditor(Doc)
    \/ Edit(Doc)
    \/ NewFile(Doc)
    \/ LoadFileFromBrowser(Doc)
    \/ Save(Doc)
    \/ SaveAs(Doc)
    \/ Open(Doc)
    \/ CloseEvent(Doc)

Spec == Init /\ [][Next]_vars

\* recent-files sessions: more files than the list holds, empty contents
NextRecent ==
    \/ ShowTextEditor(Rec)
    \/ Edit(Rec)
    \/ NewFile(Rec)
    \/ LoadFileFromBrowser(Rec)
    \/ Save(Rec)
    \/ SaveAs(Rec)
    \/ Open(Rec)
    \/ CloseEvent(Rec)

SpecRecent == Init /\ [][NextRecent]_vars

\* --------------------------------------------------- registry sessions
\* add_recent_file on its own: a constructed widget, and any sequence of
\* calls add_recent_file(path)
InitRegistry ==
    /\ recorded = NoneRecorded
    /\ browser = IdleBrowser
    /\ text_editor_instance = "widget"
    /\ visible = TRUE
    /\ Store0
    /\ last = [op |-> "import", prompted |-> FALSE, reply |-> "none",
               created |-> FALSE, io |-> "none", warning |-> FALSE,
               raised |-> FALSE, replaced |-> FALSE, added |-> None,
               arg |-> None, dialog |-> FALSE, mru |-> <<>>]

AddRecentFile(b) ==
    /\ \E path \in b.files :
         /\ recent_files' = add_recent_file(recent_files, path)
         /\ recorded' =
              LET again == recorded.repeated
                           \/ path \in Range(recorded.order)
              IN  [order |-> IF again THEN <<>>
                             ELSE <<path>> \o recorded.order,
                   repeated |-> again,
                   path |-> path]
    /\ UNCHANGED <<text_editor_instance, visible, text, is_modified,
                   current_file_path, saved_text, last, browser>>

NextRegistry == AddRecentFile(Rec)

SpecRegistry == InitRegistry /\ [][NextRegistry]_vars

\* ---------------------------------------------------- browser sessions
\* the sidebar FileBrowser over the files and folders below the home folder
MaxItems == 3
NumNames == 2
NameChars == <<"a", "b", "c">>

\* folder and file names (one path component each)
Names == {<<NameChars[i]>> : i \in 1..NumNames}

\* what the user may type in the Create Folder dialog
DialogTexts ==
    {<<>>, <<" ">>} \cup Names \cup {<<" ">> \o n \o <<" ">> : n \in Names}

\* QDir.homePath(), the root of the tree view
Home == <<>>

IsPrefix(p, q) == Len(p) <= Len(q) /\ SubSeq(q, 1, Len(p)) = p

\* the items at path p or below it
Under(items, p) == {i \in items : IsPrefix(p, i.path)}

Paths(items) == {i.path : i \in items}

\* os.path.isdir
isdir(items, p) ==
    p = Home \/ [path |-> p, dir |-> TRUE] \in items

\* os.path.dirname
dirname(p) == SubSeq(p, 1, Len(p) - 1)

\* str.strip
RECURSIVE strip(_)
strip(t) ==
    IF t = <<>> THEN t
    ELSE IF t[1] = " " THEN strip(Tail(t))
    ELSE IF t[Len(t)] = " " THEN strip(SubSeq(t, 1, Len(t) - 1))
    ELSE t

\* the trees of at most n items: every item lies in the home folder or in a
\* folder of the tree
RECURSIVE Trees(_)
Trees(n) ==
    IF n = 0 THEN {{}}
    ELSE LET smaller == Trees(n - 1)
         IN  smaller \cup
             {t \cup {[path |-> base \o <<name>>, dir |-> d]} :
                <<t, base, name, d>> \in
                  {x \in smaller
                          \X (UNION {[1..k -> Names] : k \in 0..(n - 1)})
                          \X Names \X BOOLEAN :
                     /\ isdir(x[1], x[2])
                     /\ x[2] \o <<x[3]>> \notin Paths(x[1])}}

\* what a failed shutil.rmtree(p) may have removed before it raised: items
\* below p, a folder only together with all it holds
Partial(items, p) ==
    {g \in SUBSET (Under(items, p) \ {i \in items : i.path = p}) :
       \A i \in g : Under(items, i.path) \subseteq g}

\* refresh_view: re-roots the model and the view at the home folder; the
\* filesystem is not touched
refresh_view(br) == br

\* faulty variant: the answer to the confirmation is not looked at
delete_item_ignoresAnswer(br, confirm, ok, gone, current) ==
    IF br.index = <<>>
    THEN [br EXCEPT !.op = "delete_item", !.asked = FALSE,
                    !.confirm = "none", !.warning = FALSE, !.removed = {}]
    ELSE LET path == br.index
             b1 == [br EXCEPT !.op = "delete_item", !.asked = TRUE,
                              !.confirm = confirm, !.warning = FALSE,
                              !.removed = {}]
         IN  IF ok
             THEN LET del == IF isdir(br.items, path)
                             THEN Under(br.items, path)
                             ELSE {i \in br.items : i.path = path}
                  IN  refresh_view([b1 EXCEPT !.items = br.items \ del,
                                              !.removed = Paths(del),
                                              !.index = current])
             ELSE [b1 EXCEPT !.items = br.items \ gone,
                             !.removed = Paths(gone),
                             !.warning = TRUE]

\* delete_item.  confirm is the answer to Confirm Delete, ok tells whether
\* rmtree / os.remove succeeded, gone is what a failing rmtree had removed
\* by then, current is the item the view makes current once the selected
\* one is gone
delete_item(br, confirm, ok, gone, current) ==
    IF br.index = <<>>
    THEN [br EXCEPT !.op = "delete_item", !.asked = FALSE,
                    !.confirm = "none", !.warning = FALSE, !.removed = {}]
    ELSE LET path == br.index
             b1 == [br EXCEPT !.op = "delete_item", !.asked = TRUE,
                              !.confirm = confirm, !.warning = FALSE,
                              !.removed = {}]
         IN  IF confirm = "Yes"
             THEN IF ok
                  THEN LET del == IF isdir(br.items, path)
                                  THEN Under(br.items, path)
                                  ELSE {i \in br.items : i.path = path}
                       IN  refresh_view([b1 EXCEPT !.items = br.items \ del,
                                                   !.removed = Paths(del),
                                                   !.index = current])
                  ELSE [b1 EXCEPT !.items = br.items \ gone,
                                  !.removed = Paths(gone),
                                  !.warning = TRUE]
             ELSE b1

\* create_folder.  accepted and typed are the result of the Folder name
\* dialog, ok tells whether os.makedirs succeeded
create_folder(br, accepted, typed, ok) ==
    LET base0 == IF br.index # <<>> THEN br.index ELSE Home
        base_path == IF isdir(br.items, base0) THEN base0 ELSE dirname(base0)
        folder_name == strip(typed)
        new_path == base_path \o <<folder_name>>
        b1 == [br EXCEPT !.op = "create_folder", !.asked = FALSE,
                         !.confirm = "none", !.warning = FALSE,
                         !.removed = {}]
    IN  IF accepted /\ folder_name # <<>>
        THEN IF ok /\ [path |-> new_path, dir |-> FALSE] \notin br.items
             THEN refresh_view(
                    [b1 EXCEPT !.items =
                         br.items \cup {[path |-> new_path, dir |-> TRUE]}])
             ELSE [b1 EXCEPT !.warning = TRUE]
        ELSE b1

EditorIdle ==
    UNCHANGED <<text_editor_instance, visible, text, is_modified,
                current_file_path, recent_files, saved_text, last, recorded>>

InitBrowser ==
    /\ recorded = NoneRecorded
    /\ browser \in {[IdleBrowser EXCEPT !.items = t] : t \in Trees(MaxItems)}
    /\ text_editor_instance = "widget"
    /\ visible = TRUE
    /\ Store0
    /\ last = [op |-> "import", prompted |-> FALSE, reply |-> "none",
               created |-> FALSE, io |-> "none", warning |-> FALSE,
               raised |-> FALSE, replaced |-> FALSE, added |-> None,
               arg |-> None, dialog |-> FALSE, mru |-> <<>>]

\* the user clicks an item of the tree view, which becomes the current one
SelectItem ==
    /\ \E p \in Paths(browser.items) :
         browser' = [browser EXCEPT !.index = p, !.op = "select",
                                    !.asked = FALSE, !.confirm = "none",
                                    !.warning = FALSE, !.removed = {}]
    /\ EditorIdle

\* the Delete button
DeleteItem ==
    /\ \E confirm \in {"No", "Yes"}, ok \in BOOLEAN :
         \E gone \in (IF confirm = "Yes" /\ ~ok
                          /\ isdir(browser.items, browser.index)
                       THEN Partial(browser.items, browser.index)
                       ELSE {{}}) :
           \E current \in (IF confirm = "Yes" /\ ok
                            THEN {<<>>} \cup
                                 (Paths(browser.items)
                                    \ Paths(Under(browser.items,
                                                  browser.index)))
                            ELSE {<<>>}) :
             browser' = delete_item(browser, confirm, ok, gone, current)
    /\ EditorIdle

\* the New Folder button
CreateFolder ==
    /\ Cardinality(browser.items) < MaxItems
    /\ \E accepted \in BOOLEAN, typed \in DialogTexts, ok \in BOOLEAN :
         browser' = create_folder(browser, accepted, typed, ok)
    /\ EditorIdle

NextBrowser ==
    \/ SelectItem
    \/ DeleteItem
    \/ CreateFolder

SpecBrowser == InitBrowser /\ [][NextBrowser]_vars

\* ------------------------------------------------------------------ claims
FileOps == {"open", "load_file_from_browser", "save", "save_as"}

\* C1: after every call add_recent_file(path), path is at index 0 of
\* recent_files; if path was already in the list, the length is unchanged.
C1_AddedPathAtFront ==
    [][last'.added # None =>
          /\ recent_files'[1] = last'.added
          /\ (last'.added \in Range(recent_files) =>
                Len(recent_files') = Len(recent_files))]_vars

\* C2: after the answer Yes to the prompt of new_file or closeEvent, the
\* document is cleared / the window is closed only if the save succeeded.
C2_ProceedOnlyAfterSave ==
    (last.op \in {"new_file", "closeEvent"} /\ last.reply = "Yes"
        /\ last.io # "ok")
    => (~last.replaced /\ visible)

\* C3: while is_modified is true, no handler replaces the editor content
\* without having shown the Save/Discard/Cancel prompt.
C3_DirtyContentReplacedOnlyAfterPrompt ==
    [][(is_modified /\ last'.replaced) => last'.prompted]_vars

\* C4: recent_files equals the reference list: the distinct paths recorded
\* so far, most recently used first, truncated to MAX_RECENT_FILES.
C4_RecentFilesIsMruList == Shown => recent_files = last.mru

\* C5: recent_files never holds more than MAX_RECENT_FILES entries and
\* never holds a path twice.
C5_RecentFilesBoundedNoDuplicates ==
    /\ Len(recent_files) <= MAX_RECENT_FILES
    /\ \A i, j \in DOMAIN recent_files :
         recent_files[i] = recent_files[j] => i = j

\* the list is full, so every further new path evicts the oldest entry
C5_Witness ==
    /\ Shown
    /\ Len(recent_files) = MAX_RECENT_FILES
    /\ current_file_path = recent_files[1]

\* C6 (as claimed): on one editor, is_modified goes from true to false only
\* in a handler that completed a load or a save.
C6_ResetOnlyByLoadOrSave ==
    [][(is_modified /\ ~is_modified' /\ ~last'.created)
          => last'.io = "ok"]_vars

\* C6 (amended): on one editor, is_modified goes from true to false only in
\* a handler that completed a load or a save, or in new_file when it clears
\* the document; edits, failed saves, cancelled dialogs and closeEvent do
\* not reset it.
C6_ResetOnlyByLoadSaveOrNewFile ==
    [][(is_modified /\ ~is_modified' /\ ~last'.created)
          => \/ last'.io = "ok"
             \/ last'.op = "new_file" /\ last'.replaced]_vars

\* new_file answered No cleared the dirty document and left it clean
C6_Witness ==
    /\ last.op = "new_file"
    /\ last.reply = "No"
    /\ last.replaced
    /\ ~is_modified

\* C7: a failing open, load, save or save-as leaves is_modified,
\* current_file_path and recent_files unchanged and records no recent file.
C7_FailedIoLeavesStateUnchanged ==
    [][(last'.op \in FileOps /\ last'.io = "fail")
          => /\ UNCHANGED <<is_modified, current_file_path, recent_files>>
             /\ last'.added = None]_vars

\* a save of a dirty, bound document failed
C7_Witness ==
    /\ last.op = "save"
    /\ last.io = "fail"
    /\ is_modified
    /\ current_file_path # None
    /\ recent_files # <<>>

\* C8: every I/O failure ends in a warning dialog and never in an exception
\* escaping the handler.
C8_FailureShowsWarningNeverRaises ==
    last.io = "fail" => (last.warning /\ ~last.raised)

\* C9: right after a successful load of p or save to p, is_modified is false
\* and current_file_path is p; for Save As p is the chosen name, with .txt
\* appended unless it already ends in .txt (in any case).
C9_CleanAndBoundAfterLoadOrSave ==
    (last.op \in FileOps \cup {"closeEvent"} /\ last.io = "ok")
    => /\ ~is_modified
       /\ IF last.dialog
          THEN /\ EndsWith(Lower(current_file_path), Txt)
               /\ \/ current_file_path = last.arg
                  \/ /\ current_file_path = last.arg \o Txt
                     /\ ~EndsWith(Lower(last.arg), Txt)
          ELSE current_file_path = last.arg

\* a load replaced the content (textChanged fired) and left the document
\* clean and bound
C9_Witness ==
    /\ last.op = "load_file_from_browser"
    /\ last.io = "ok"
    /\ last.replaced
    /\ text # <<>>
    /\ ~is_modified
    /\ current_file_path = last.arg

\* C10: the answer Cancel to the prompt of new_file or closeEvent leaves the
\* text, current_file_path, is_modified and recent_files unchanged and the
\* window open.
C10_CancelChangesNothing ==
    [][(last'.op \in {"new_file", "closeEvent"} /\ last'.reply = "Cancel")
          => /\ UNCHANGED <<text, current_file_path, is_modified,
                            recent_files, visible>>
             /\ ~last'.replaced
             /\ visible']_vars

\* a dirty, bound, non-empty document survived a Cancel
C10_Witness ==
    /\ last.reply = "Cancel"
    /\ last.op \in {"new_file", "closeEvent"}
    /\ is_modified
    /\ text # <<>>
    /\ current_file_path # None
    /\ visible

\* position of path p in list s (0 if absent)
IndexOf(s, p) == IF p \in Range(s) THEN CHOOSE i \in DOMAIN s : s[i] = p ELSE 0

\* C11: after more than MAX_RECENT_FILES pairwise distinct paths were
\* recorded, recent_files holds exactly the MAX_RECENT_FILES paths recorded
\* last, the most recent first.
C11_DistinctPathsKeepNewest ==
    (~recorded.repeated /\ Len(recorded.order) > MAX_RECENT_FILES)
    => recent_files = SubSeq(recorded.order, 1, MAX_RECENT_FILES)

\* more distinct paths than the list holds were recorded: the first one is
\* gone from the list
C11_Witness ==
    /\ ~recorded.repeated
    /\ Len(recorded.order) > MAX_RECENT_FILES
    /\ recorded.order[Len(recorded.order)] \notin Range(recent_files)

\* C12: add_recent_file(path) keeps the relative order of all other entries
\* that are in the list before and after the call.
C12_OtherEntriesKeepOrder ==
    [][\A p, q \in (Range(recent_files) \cap Range(recent_files'))
                    \ {recorded'.path} :
          IndexOf(recent_files, p) < IndexOf(recent_files, q)
          => IndexOf(recent_files', p) < IndexOf(recent_files', q)]_vars

\* a path listed behind two others was recorded again, the list being full
C12_Witness ==
    /\ recorded.repeated
    /\ Len(recent_files) = MAX_RECENT_FILES
    /\ IndexOf(recent_files, recorded.path) > 2

\* C13: a path leaves recent_files only by truncation: when the list is full
\* and a path not yet listed is put in front of it.
C13_EntriesLeaveOnlyByTruncation ==
    [][\A p \in Range(recent_files) :
          p \notin Range(recent_files')
          => /\ Len(recent_files) = MAX_RECENT_FILES
             /\ Len(recent_files') = MAX_RECENT_FILES
             /\ recent_files'[1] \notin Range(recent_files)]_vars

\* C14: a freshly created editor is not modified, and New File and closing
\* the window then proceed without the Save Changes? prompt.
C14_FreshEditorNeverPrompts ==
    [][last.created
          => /\ ~is_modified
             /\ (last'.op = "new_file"
                   => ~last'.prompted /\ last'.replaced)
             /\ (last'.op = "closeEvent"
                   => ~last'.prompted /\ ~visible')]_vars

\* an untouched editor was closed without a prompt
C14_Witness ==
    /\ last.op = "closeEvent"
    /\ ~last.prompted
    /\ ~visible
    /\ text = <<>>
    /\ current_file_path = None
    /\ recent_files = <<>>

\* C15 (as claimed): is_modified is true exactly when the text differs from
\* the content of the last successful load or save (empty when untitled).
C15_ModifiedIffTextDiffers ==
    Shown => (is_modified <=> text # saved_text)

\* C15 (amended): is_modified is true whenever the text differs from the
\* content of the last successful load or save, and it is true after every
\* edit, also one that brings the text back to that content.
C15_ModifiedIfTextDiffersOrEdited ==
    Shown => ((text # saved_text \/ last.op = "edit") => is_modified)

\* an edit brought the text of a bound document back to its saved content
\* and the document counts as modified
C15_Witness ==
    /\ Shown
    /\ last.op = "edit"
    /\ current_file_path # None
    /\ text = saved_text
    /\ text # <<>>
    /\ is_modified

\* C16: show_texteditor builds a new widget exactly when no instance exists
\* or the instance is not visible; while one is visible the call leaves it
\* and all its fields as they are.
C16_SingleInstance ==
    [][last'.op = "show_texteditor"
          => /\ last'.created <=> ~Shown
             /\ Shown => UNCHANGED <<text_editor_instance, visible, text,
                                     is_modified, current_file_path,
                                     recent_files, saved_text>>
             /\ Shown']_vars

\* show_texteditor raised the visible editor, which kept its document
C16_Witness ==
    /\ last.op = "show_texteditor"
    /\ ~last.created
    /\ Shown
    /\ is_modified
    /\ recent_files # <<>>

\* C18: save on an untitled document shows the Save As dialog; when that is
\* cancelled nothing is written and the text, current_file_path,
\* is_modified and recent_files stay as they are.
C18_SaveUntitledCancelled ==
    [][(last'.op = "save" /\ current_file_path = None)
          => /\ last'.dialog
             /\ (last'.io = "cancelled"
                   => UNCHANGED <<text, is_modified, current_file_path,
                                  recent_files, saved_text>>)]_vars

\* a dirty untitled document after a cancelled save
C18_Witness ==
    /\ last.op = "save"
    /\ last.dialog
    /\ last.io = "cancelled"
    /\ is_modified
    /\ text # <<>>
    /\ current_file_path = None

\* C19: a bound current_file_path is always an entry of recent_files.
C19_CurrentFileIsRecent ==
    current_file_path # None => current_file_path \in Range(recent_files)

\* the list is full and the bound file is its oldest entry
C19_Witness ==
    /\ Shown
    /\ Len(recent_files) = MAX_RECENT_FILES
    /\ current_file_path = recent_files[MAX_RECENT_FILES]

\* C20: a document that counts as unmodified holds the content last read
\* from or written to its file, or nothing when it is untitled.
C20_CleanMeansSaved ==
    ~is_modified
    => text = (IF current_file_path = None THEN <<>> ELSE saved_text)

\* a clean bound document with content
C20_Witness ==
    /\ Shown
    /\ ~is_modified
    /\ current_file_path # None
    /\ text # <<>>
    /\ last.op = "save_as"

\* C17: the browser removes a file or folder only in delete_item, only
\* after the user answered Yes to the confirmation for the selected item,
\* and only that item with what it holds; with no item selected nothing is
\* asked, and with no item selected or the answer No nothing is removed.
C17_DeleteOnlyAfterYes ==
    [][/\ \A i \in browser.items \ browser'.items :
             /\ browser'.op = "delete_item"
             /\ browser.index # <<>>
             /\ browser'.asked
             /\ browser'.confirm = "Yes"
             /\ IsPrefix(browser.index, i.path)
       /\ (browser'.op = "delete_item" /\ browser.index = <<>>)
             => ~browser'.asked /\ browser'.items = browser.items
       /\ (browser'.op = "delete_item" /\ browser'.confirm # "Yes")
             => browser'.items = browser.items]_vars

\* a folder and what it held were removed after the answer Yes
C17_Witness ==
    /\ browser.op = "delete_item"
    /\ browser.asked
    /\ browser.confirm = "Yes"
    /\ ~browser.warning
    /\ Cardinality(browser.removed) > 1
    /\ browser.items # {}
====
